---- MODULE Spec2Model ----
(***************************************************************************)
(* Recursive PM2.5 forecasting pipeline of improved_app_with_features.py.  *)
(*                                                                         *)
(* Units.  PM2.5 concentrations and precipitation amounts are integers in  *)
(* tenths of a unit (12.1 ug/m3 is 121, 0.1 mm is 1).  Timestamps are      *)
(* integer hours since 2024-01-01 00:00 (a Monday) and stay inside January *)
(* 2024.  A float that is not a finite number is one of the two values NaN *)
(* and PosInf.  A rolling mean is the exact fraction [num, den]; a rolling *)
(* std is held as its square, the population variance, again a fraction.   *)
(* A dataframe row is a function from column names to values.              *)
(***************************************************************************)
EXTENDS Integers, Sequences, FiniteSets, TLC

\* ------------------------------------------------------------------ bounds
\* extra weather rows beyond the forecast horizon
MaxExtra == 1
\* extra air-quality observations beyond the 24 h lookback
AqExtra == 2
\* extra historical weather rows beyond the 24 h precipitation window
HwExtra == 2
\* the model returns a non-finite value at a step in 0..MaxNonFiniteStep
MaxNonFiniteStep == 2
\* largest concentration (tenths) classified in the AQI specification
MaxPM25 == 2600

\* ------------------------------------------------------- program constants
FORECAST_HOURS == 72
HISTORY_HOURS == 24
EXTREME_THRESHOLD == 1500
PRECIP_THRESHOLD == 1
ROLL_WINDOW == 24
PRECIP_WINDOW == 24
FALLBACK_HOURS == 3
FALLBACK_THRESHOLD == 1
AQI_GOOD == 120
AQI_MODERATE == 354
AQI_USG == 554
AQI_UNHEALTHY == 1504
AQI_VERY_UNHEALTHY == 2504

\* np.nan and float("inf"): two values outside the finite range of the model
NaN == 0 - 99999999
PosInf == 99999999
IsNaN(x) == x = NaN
IsFinite(x) == x # NaN /\ x # PosInf

\* IEEE comparisons: every comparison with NaN is false
Ge(a, b) == a # NaN /\ b # NaN /\ a >= b
Gt(a, b) == a # NaN /\ b # NaN /\ a > b
Le(a, b) == a # NaN /\ b # NaN /\ a <= b

\* WEATHER_RENAME.values(), in dictionary order
WEATHER_RENAME == <<"Temp", "DewP", "Press", "WindSpeed", "WindDir",
                    "Humidity", "precipitation", "snowfall">>
WeatherFields == {WEATHER_RENAME[i] : i \in 1..Len(WEATHER_RENAME)}

lag_periods == <<1, 2, 3, 6, 12, 24>>
LagCol(lag) == CASE lag = 1 -> "pm2.5_lag1" [] lag = 2 -> "pm2.5_lag2"
                 [] lag = 3 -> "pm2.5_lag3" [] lag = 6 -> "pm2.5_lag6"
                 [] lag = 12 -> "pm2.5_lag12" [] lag = 24 -> "pm2.5_lag24"

VARIABLES
    \* inputs of one run, fixed at Init
    wx_len,        \* number of rows of wx_df
    wx_t0,         \* timestamp of the first row of wx_df
    wx_missing,    \* the weather field wx_df lacks, or "none"
    aq_n,          \* number of rows of aq_df
    aq_order,      \* "asc" or "desc": the order in which aq_df arrives
    aq_gap,        \* TRUE when the latest observation of aq_df is null (NaN)
    hw_n,          \* rows of historical_weather_df, -1 when it is None
    model_kind,    \* which function of the feature row the model computes
    model_strict,  \* TRUE when the model rejects a row lacking a schema column
    fail_at,       \* step at which the model misbehaves, -1 for never
    fail_kind,     \* "raise", "nan" or "inf"
    \* state of build_future_dataframe
    pc,            \* "loop", "returned", "stopped" or "raised"
    idx,           \* loop variable
    history_pm25,  \* the PM2.5 history buffer
    rows,          \* forecast steps accumulated so far
    X,             \* the frame last passed to model.predict (<<>> before)
    n_predict,     \* number of model.predict calls made
    st_error,      \* message shown by st.error, <<>> when none
    exc,           \* exception that left the function, "" when none
    df_future,     \* the returned dataframe (<<>> until returned)
    \* state of the AQI classification specification
    aqi_in, aqi_out,
    \* result of generate_forecast_summary(df_future)
    summary

inputs == <<wx_len, wx_t0, wx_missing, aq_n, aq_order, aq_gap, hw_n,
            model_kind, model_strict, fail_at, fail_kind>>
run == <<pc, idx, history_pm25, rows, X, n_predict, st_error, exc, df_future>>
aqi == <<aqi_in, aqi_out>>
post == <<summary>>
vars == <<inputs, run, aqi, post>>

\* ------------------------------------------------------------ generic helpers
RECURSIVE SumSeq(_)
SumSeq(s) == IF s = <<>> THEN 0 ELSE Head(s) + SumSeq(Tail(s))

RECURSIVE SumSq(_)
SumSq(s) == IF s = <<>> THEN 0 ELSE Head(s) * Head(s) + SumSq(Tail(s))

\* s[-k:] of a Python list (k >= 1)
LastK(s, k) == IF Len(s) <= k THEN s ELSE SubSeq(s, Len(s) - k + 1, Len(s))

\* df[col] = v: adds the column or overwrites it
SetCol(row, col, v) ==
    [c \in (DOMAIN row) \cup {col} |-> IF c = col THEN v ELSE row[c]]

\* ------------------------------------------------------------------ inputs
\* One hourly value of a weather field of wx_df at row position i (0-based).
WxValue(col, i) ==
    CASE col = "Temp" -> 50 + (i % 10)
      [] col = "DewP" -> i % 7
      [] col = "Press" -> 10100 + (i % 5)
      [] col = "WindSpeed" -> 10 * (1 + (i % 3))
      [] col = "WindDir" -> 90 * (i % 4)
      [] col = "Humidity" -> 40 + (i % 30)
      [] col = "precipitation" -> <<0, 1, 2>>[(i % 3) + 1]
      [] col = "snowfall" -> <<2, 0, 1, 0>>[(i % 4) + 1]

\* columns of wx_df, as fetch_weather renames them
wx_columns == {"time"} \cup (WeatherFields \ {wx_missing})

\* wx_df.iloc[i] (0-based), hourly and strictly increasing in time
WxRow(i) == [c \in wx_columns |-> IF c = "time" THEN wx_t0 + i ELSE WxValue(c, i)]

\* The observation of the hour j hours into the history (1 = oldest).
AqValue(j) ==
    IF aq_gap /\ j = aq_n THEN NaN
    ELSE <<1500, 1499, 80, 1600, 120, 121>>[((j - 1) % 6) + 1]

\* aq_df as it arrives: one row per hour before wx_t0, oldest or newest first
aq_df ==
    [p \in 1..aq_n |->
        LET j == IF aq_order = "asc" THEN p ELSE aq_n + 1 - p
        IN  [time |-> wx_t0 - aq_n - 1 + j, pm25 |-> AqValue(j)]]

\* historical_weather_df: hw_n hourly rows, None when hw_n = -1
historical_weather_df ==
    [j \in 1..hw_n |->
        [precipitation |-> <<0, 1, 2, 0, 3>>[((j - 1) % 5) + 1],
         snowfall |-> <<0, 0, 1>>[((j - 1) % 3) + 1]]]

\* df.sort_values("time"): ascending by time (the timestamps are distinct)
RECURSIVE InsertByTime(_, _)
InsertByTime(sorted, r) ==
    IF sorted = <<>> THEN <<r>>
    ELSE IF r.time < Head(sorted).time THEN <<r>> \o sorted
    ELSE <<Head(sorted)>> \o InsertByTime(Tail(sorted), r)

RECURSIVE sort_values(_)
sort_values(df) ==
    IF df = <<>> THEN <<>> ELSE InsertByTime(sort_values(Tail(df)), Head(df))

\* df[col].tail(n).tolist()
TailList(df, col, n) == LET t == LastK(df, n) IN [i \in 1..Len(t) |-> t[i][col]]

\* ------------------------------------------------------ pure feature helpers
get_season(month) ==
    IF month \in {12, 1, 2} THEN "Winter"
    ELSE IF month \in {3, 4, 5} THEN "Spring"
    ELSE IF month \in {6, 7, 8} THEN "Summer"
    ELSE "Fall"

get_time_of_day(hour) ==
    IF 5 <= hour /\ hour < 12 THEN "Morning"
    ELSE IF 12 <= hour /\ hour < 17 THEN "Afternoon"
    ELSE IF 17 <= hour /\ hour < 21 THEN "Evening"
    ELSE "Night"

\* sin and cos of the four cardinal directions, the only ones wx_df holds
SinDeg(d) == CASE d = 0 -> 0 [] d = 90 -> 1 [] d = 180 -> 0 [] d = 270 -> 0 - 1
CosDeg(d) == CASE d = 0 -> 1 [] d = 90 -> 0 [] d = 180 -> 0 - 1 [] d = 270 -> 0

calculate_wind_components(wind_speed, wind_direction) ==
    [u |-> 0 - wind_speed * SinDeg(wind_direction),
     v |-> 0 - wind_speed * CosDeg(wind_direction)]

\* winsorize on a one-row Series: both quantiles are the value itself
winsorize(x) ==
    LET lower_bound == x
        upper_bound == x
    IN  IF x < lower_bound THEN lower_bound
        ELSE IF x > upper_bound THEN upper_bound ELSE x

calculate_hours_of_precipitation(precip_data) ==
    Cardinality({i \in 1..Len(precip_data) : Ge(precip_data[i], PRECIP_THRESHOLD)})

\* is_extreme_pm25 with a strict comparison
is_extreme_pm25_Strict(pm25_value) ==
    IF Gt(pm25_value, EXTREME_THRESHOLD) THEN "Yes" ELSE "No"

is_extreme_pm25(pm25_value) ==
    IF Ge(pm25_value, EXTREME_THRESHOLD) THEN "Yes" ELSE "No"

\* ------------------------------------------------------- feature derivation
\* the NaN fraction and the fraction of an integer
NaNFrac == [num |-> NaN, den |-> 1]
Frac(n, d) == [num |-> n, den |-> d]

\* np.mean of a non-empty list
np_mean(w) ==
    IF \E i \in 1..Len(w) : w[i] = NaN THEN NaNFrac
    ELSE IF \E i \in 1..Len(w) : w[i] = PosInf THEN Frac(PosInf, 1)
    ELSE Frac(SumSeq(w), Len(w))

\* np.std of a non-empty list (ddof = 0), squared: mean((x - mean)^2)
np_std(w) ==
    IF \E i \in 1..Len(w) : ~IsFinite(w[i]) THEN NaNFrac
    ELSE Frac(Len(w) * SumSq(w) - SumSeq(w) * SumSeq(w), Len(w) * Len(w))

\* LagValue falling back to the newest entry instead of the oldest
LagValue_Newest(history, lag) ==
    IF Len(history) >= lag THEN history[Len(history) - lag + 1]
    ELSE IF history # <<>> THEN history[Len(history)] ELSE NaN

\* the value create_lag_features stores in column pm2.5_lag<lag>
LagValue(history, lag) ==
    IF Len(history) >= lag THEN history[Len(history) - lag + 1]
    ELSE IF history # <<>> THEN history[1] ELSE NaN

RECURSIVE LagFold(_, _, _)
LagFold(df, history, k) ==
    IF k > Len(lag_periods) THEN df
    ELSE LagFold(SetCol(df, LagCol(lag_periods[k]), LagValue(history, lag_periods[k])),
                 history, k + 1)

create_lag_features(df, history) == LagFold(df, history, 1)

\* create_rolling_features over the whole buffer instead of its last 24 entries
create_rolling_features_NoWindow(df, history) ==
    IF Len(history) > 0
    THEN SetCol(SetCol(df, "pm2.5_roll24_mean", np_mean(history)),
                "pm2.5_roll24_std",
                IF Len(history) > 1 THEN np_std(history) ELSE Frac(0, 1))
    ELSE SetCol(SetCol(df, "pm2.5_roll24_mean", NaNFrac),
                "pm2.5_roll24_std", NaNFrac)

create_rolling_features(df, history) ==
    IF Len(history) > 0
    THEN LET window_size == IF ROLL_WINDOW < Len(history) THEN ROLL_WINDOW
                            ELSE Len(history)
             w == LastK(history, window_size)
         IN  SetCol(SetCol(df, "pm2.5_roll24_mean", np_mean(w)),
                    "pm2.5_roll24_std",
                    IF window_size > 1 THEN np_std(w) ELSE Frac(0, 1))
    ELSE SetCol(SetCol(df, "pm2.5_roll24_mean", NaNFrac),
                "pm2.5_roll24_std", NaNFrac)

add_time_features(df) ==
    LET t == df["time"]
        month == 1
        hour == t % 24
        day_of_week == (t \div 24) % 7
    IN  [c \in (DOMAIN df) \cup {"Year", "month", "Day", "hour", "day_of_week",
                                  "day_of_year", "is_weekend", "time_of_day",
                                  "Season"} |->
            CASE c = "Year" -> 2024
              [] c = "month" -> month
              [] c = "Day" -> 1 + (t \div 24)
              [] c = "hour" -> hour
              [] c = "day_of_week" -> day_of_week
              [] c = "day_of_year" -> 1 + (t \div 24)
              [] c = "is_weekend" -> IF day_of_week >= 5 THEN 1 ELSE 0
              [] c = "time_of_day" -> get_time_of_day(hour)
              [] c = "Season" -> get_season(month)
              [] OTHER -> df[c]]

\* The column add_weather_features fails to find in df (KeyError), "" if none.
\* hist is TRUE when a historical weather frame is passed.
weather_key_error(df, hist) ==
    IF "WindSpeed" \notin DOMAIN df THEN "WindSpeed"
    ELSE IF "WindDir" \notin DOMAIN df THEN "WindDir"
    ELSE IF hist THEN ""
    ELSE IF "precipitation" \notin DOMAIN df THEN "precipitation"
    ELSE IF "snowfall" \notin DOMAIN df THEN "snowfall"
    ELSE ""

\* add_weather_features whose fallback counts a value equal to the threshold
add_weather_features_Inclusive(df, hist) ==
    LET uv == calculate_wind_components(df["WindSpeed"], df["WindDir"])
        rain == IF hist
                THEN calculate_hours_of_precipitation(
                         TailList(historical_weather_df, "precipitation", PRECIP_WINDOW))
                ELSE (IF Ge(df["precipitation"], FALLBACK_THRESHOLD) THEN 1 ELSE 0)
                     * FALLBACK_HOURS
        snow == IF hist
                THEN calculate_hours_of_precipitation(
                         TailList(historical_weather_df, "snowfall", PRECIP_WINDOW))
                ELSE (IF Ge(df["snowfall"], FALLBACK_THRESHOLD) THEN 1 ELSE 0)
                     * FALLBACK_HOURS
    IN  [c \in (DOMAIN df) \cup {"WinDir_U", "WinDir_V", "WindSpeed_Winsorized",
                                  "HoursOfRain", "HoursOfSnow",
                                  "HoursOfRain_rolling", "HoursOfSnow_rolling"} |->
            CASE c = "WinDir_U" -> uv.u
              [] c = "WinDir_V" -> uv.v
              [] c = "WindSpeed_Winsorized" -> winsorize(df["WindSpeed"])
              [] c = "HoursOfRain" -> rain
              [] c = "HoursOfSnow" -> snow
              [] c = "HoursOfRain_rolling" -> rain
              [] c = "HoursOfSnow_rolling" -> snow
              [] OTHER -> df[c]]

\* add_weather_features on a one-row frame, when it raises no KeyError
add_weather_features(df, hist) ==
    LET uv == calculate_wind_components(df["WindSpeed"], df["WindDir"])
        rain == IF hist
                THEN calculate_hours_of_precipitation(
                         TailList(historical_weather_df, "precipitation", PRECIP_WINDOW))
                ELSE (IF Gt(df["precipitation"], FALLBACK_THRESHOLD) THEN 1 ELSE 0)
                     * FALLBACK_HOURS
        snow == IF hist
                THEN calculate_hours_of_precipitation(
                         TailList(historical_weather_df, "snowfall", PRECIP_WINDOW))
                ELSE (IF Gt(df["snowfall"], FALLBACK_THRESHOLD) THEN 1 ELSE 0)
                     * FALLBACK_HOURS
    IN  [c \in (DOMAIN df) \cup {"WinDir_U", "WinDir_V", "WindSpeed_Winsorized",
                                  "HoursOfRain", "HoursOfSnow",
                                  "HoursOfRain_rolling", "HoursOfSnow_rolling"} |->
            CASE c = "WinDir_U" -> uv.u
              [] c = "WinDir_V" -> uv.v
              [] c = "WindSpeed_Winsorized" -> winsorize(df["WindSpeed"])
              [] c = "HoursOfRain" -> rain
              [] c = "HoursOfSnow" -> snow
              [] c = "HoursOfRain_rolling" -> rain
              [] c = "HoursOfSnow_rolling" -> snow
              [] OTHER -> df[c]]

add_extreme_event_features(df, history) ==
    IF Len(history) > 0
    THEN LET last_pm25 == history[Len(history)]
         IN  SetCol(SetCol(df, "Extreme_PM2.5", is_extreme_pm25(last_pm25)),
                    "Extreme_Event_VMD_shift1",
                    IF Len(history) > 1
                    THEN is_extreme_pm25(history[Len(history) - 1])
                    ELSE "No")
    ELSE SetCol(SetCol(df, "Extreme_PM2.5", "No"), "Extreme_Event_VMD_shift1", "No")

\* "for col in WEATHER_RENAME.values(): if col in wx_df.columns: df[col] = ..."
AddWeatherVariables(df, wx_row) ==
    [c \in (DOMAIN df) \cup (WeatherFields \cap DOMAIN wx_row) |->
        IF c \in WeatherFields THEN wx_row[c] ELSE df[c]]

\* the features every step derives after the weather features
HistoryFeatures(df, history) ==
    add_extreme_event_features(
        create_rolling_features(create_lag_features(df, history), history), history)

\* prepare_features(wx_df.iloc[[0]], aq_df, historical_weather_df), when
\* add_weather_features raises no KeyError: the frame of step 0
prepare_features(wx_row, hist) ==
    LET history == TailList(sort_values(aq_df), "pm25", HISTORY_HOURS)
        base == add_time_features(AddWeatherVariables([c \in {"time"} |-> wx_row["time"]], wx_row))
        result_df == HistoryFeatures(add_weather_features(base, hist), history)
    IN  SetCol(result_df, "datetime", result_df["time"])

\* InlineFeatures stamping every row with the time of the first weather row
InlineFeatures_StaleTime(wx_row, history) ==
    LET base == add_time_features(AddWeatherVariables([c \in {"time"} |-> WxRow(0)["time"]], wx_row))
    IN  HistoryFeatures(add_weather_features(base, FALSE), history)

\* the frame the loop body builds inline for a step idx >= 1
InlineFeatures(wx_row, history) ==
    LET base == add_time_features(AddWeatherVariables([c \in {"time"} |-> wx_row["time"]], wx_row))
    IN  HistoryFeatures(add_weather_features(base, FALSE), history)

\* ------------------------------------------------------------- the model
\* The columns the trained model reads by name.
ModelSchema ==
    WeatherFields \cup
    {"Year", "month", "Day", "hour", "day_of_week", "day_of_year", "is_weekend",
     "time_of_day", "Season", "WinDir_U", "WinDir_V", "WindSpeed_Winsorized",
     "HoursOfRain", "HoursOfSnow", "HoursOfRain_rolling", "HoursOfSnow_rolling",
     "pm2.5_roll24_mean", "pm2.5_roll24_std", "Extreme_PM2.5",
     "Extreme_Event_VMD_shift1"} \cup
    {LagCol(lag_periods[k]) : k \in 1..Len(lag_periods)}

\* float(model.predict(df)[0]) on the call numbered call (0-based): the model
\* is opaque, so it is one of a family of functions of the row, fixed per run.
\* [raised |-> TRUE] is an exception out of predict.
Predict(df, call) ==
    IF model_strict /\ ~(ModelSchema \subseteq DOMAIN df)
    THEN [raised |-> TRUE, yhat |-> NaN]
    ELSE IF call = fail_at
    THEN CASE fail_kind = "raise" -> [raised |-> TRUE, yhat |-> NaN]
           [] fail_kind = "nan" -> [raised |-> FALSE, yhat |-> NaN]
           [] fail_kind = "inf" -> [raised |-> FALSE, yhat |-> PosInf]
    ELSE IF model_kind = "walk"
    THEN [raised |-> FALSE,
          yhat |-> <<120, 121, 354, 355, 554, 555, 1499, 1500, 1504, 1505,
                     2504, 2505>>[(df["hour"] % 12) + 1]]
    ELSE [raised |-> FALSE,
          yhat |-> IF IsFinite(df["pm2.5_lag1"]) THEN df["pm2.5_lag1"] ELSE 80]

\* ---------------------------------------------------------------- messages
NoError == [text |-> "", args |-> <<>>]
\* f"Prediction error: {e}"
ErrorStep0 == [text |-> "Prediction error: {e}", args |-> <<>>]
\* f"Prediction error at step {idx}: {e}"
ErrorStepN(i) == [text |-> "Prediction error at step {idx}: {e}", args |-> <<i>>]

\* ------------------------------------------------------------------ actions
\* the state after lines 420-427 of build_future_dataframe
InitRun ==
    /\ pc = "loop"
    /\ idx = 0
    /\ history_pm25 = TailList(sort_values(aq_df), "pm25", HISTORY_HOURS)
    /\ rows = <<>>
    /\ X = <<>>
    /\ n_predict = 0
    /\ st_error = NoError
    /\ exc = ""
    /\ df_future = <<>>

\* an exception leaves build_future_dataframe
Raise(e) ==
    /\ pc' = "raised"
    /\ exc' = e
    /\ UNCHANGED <<idx, history_pm25, rows, X, n_predict, st_error, df_future>>

\* PredictAndAppend swallowing the model's exception and going on to the next step
PredictAndAppend_Swallow(df, msg) ==
    LET r == Predict(df, n_predict)
    IN  /\ X' = df
        /\ n_predict' = n_predict + 1
        /\ IF r.raised
           THEN /\ st_error' = msg
                /\ idx' = idx + 1
                /\ UNCHANGED <<pc, history_pm25, rows, exc, df_future>>
           ELSE /\ history_pm25' = Append(history_pm25, r.yhat)
                /\ rows' = Append(rows, SetCol(df, "PM2.5_pred", r.yhat))
                /\ idx' = idx + 1
                /\ UNCHANGED <<pc, st_error, exc, df_future>>

\* PredictAndAppend keeping only the last 24 entries of the buffer
PredictAndAppend_Truncate(df, msg) ==
    LET r == Predict(df, n_predict)
    IN  /\ X' = df
        /\ n_predict' = n_predict + 1
        /\ IF r.raised
           THEN /\ st_error' = msg
                /\ pc' = "stopped"
                /\ UNCHANGED <<idx, history_pm25, rows, exc, df_future>>
           ELSE /\ history_pm25' = LastK(Append(history_pm25, r.yhat), HISTORY_HOURS)
                /\ rows' = Append(rows, SetCol(df, "PM2.5_pred", r.yhat))
                /\ idx' = idx + 1
                /\ UNCHANGED <<pc, st_error, exc, df_future>>

\* model.predict(df) and what follows it in the loop body.  On an exception the
\* handler calls st.error(msg) and st.stop(); st.stop() ends the script run
\* there (it raises Streamlit's script-control exception, which no
\* "except Exception" catches), so the function never returns.
PredictAndAppend(df, msg) ==
    LET r == Predict(df, n_predict)
    IN  /\ X' = df
        /\ n_predict' = n_predict + 1
        /\ IF r.raised
           THEN /\ st_error' = msg
                /\ pc' = "stopped"
                /\ UNCHANGED <<idx, history_pm25, rows, exc, df_future>>
           ELSE /\ history_pm25' = Append(history_pm25, r.yhat)
                /\ rows' = Append(rows, SetCol(df, "PM2.5_pred", r.yhat))
                /\ idx' = idx + 1
                /\ UNCHANGED <<pc, st_error, exc, df_future>>

\* loop body, branch idx == 0
Step0 ==
    /\ pc = "loop" /\ idx < FORECAST_HOURS /\ idx = 0
    /\ IF wx_len = 0 THEN Raise("IndexError")
       ELSE LET hist == hw_n >= 0
                base == AddWeatherVariables([c \in {"time"} |-> WxRow(0)["time"]], WxRow(0))
                ke == weather_key_error(base, hist)
            IN  IF ke # "" THEN Raise("KeyError")
                ELSE PredictAndAppend(prepare_features(WxRow(0), hist), ErrorStep0)
    /\ UNCHANGED <<inputs, aqi, post>>

\* StepN deriving the features before the previous prediction was appended
StepN_StaleHistory ==
    /\ pc = "loop" /\ idx < FORECAST_HOURS /\ idx # 0
    /\ IF idx >= wx_len THEN Raise("IndexError")
       ELSE LET base == AddWeatherVariables([c \in {"time"} |-> WxRow(idx)["time"]], WxRow(idx))
                ke == weather_key_error(base, FALSE)
            IN  IF ke # "" THEN Raise("KeyError")
                ELSE PredictAndAppend(
                         InlineFeatures(WxRow(idx),
                                        SubSeq(history_pm25, 1, Len(history_pm25) - 1)),
                         ErrorStepN(idx))
    /\ UNCHANGED <<inputs, aqi, post>>

\* loop body, branch idx >= 1
StepN ==
    /\ pc = "loop" /\ idx < FORECAST_HOURS /\ idx # 0
    /\ IF idx >= wx_len THEN Raise("IndexError")
       ELSE LET base == AddWeatherVariables([c \in {"time"} |-> WxRow(idx)["time"]], WxRow(idx))
                ke == weather_key_error(base, FALSE)
            IN  IF ke # "" THEN Raise("KeyError")
                ELSE PredictAndAppend(InlineFeatures(WxRow(idx), history_pm25),
                                      ErrorStepN(idx))
    /\ UNCHANGED <<inputs, aqi, post>>

\* pd.DataFrame(rows): the union of the rows' keys, NaN/NaT where a row has none
DataFrame(rs) ==
    LET cols == UNION {DOMAIN rs[i] : i \in 1..Len(rs)}
    IN  [i \in 1..Len(rs) |->
            [c \in cols |-> IF c \in DOMAIN rs[i] THEN rs[i][c] ELSE NaN]]

\* return pd.DataFrame(rows)
Return ==
    /\ pc = "loop" /\ idx = FORECAST_HOURS
    /\ df_future' = DataFrame(rows)
    /\ pc' = "returned"
    /\ UNCHANGED <<idx, history_pm25, rows, X, n_predict, st_error, exc, inputs, aqi, post>>

\* --------------------------------------------------------- AQI classifier
\* pm25_to_aqi_category with exclusive upper bounds
pm25_to_aqi_category_Exclusive(pm25) ==
    IF pm25 # NaN /\ pm25 < AQI_GOOD THEN [category |-> "Good", color |-> "#00e400"]
    ELSE IF pm25 # NaN /\ pm25 < AQI_MODERATE
    THEN [category |-> "Moderate", color |-> "#ffff00"]
    ELSE IF pm25 # NaN /\ pm25 < AQI_USG
    THEN [category |-> "Unhealthy for Sensitive Groups", color |-> "#ff7e00"]
    ELSE IF pm25 # NaN /\ pm25 < AQI_UNHEALTHY
    THEN [category |-> "Unhealthy", color |-> "#ff0000"]
    ELSE IF pm25 # NaN /\ pm25 < AQI_VERY_UNHEALTHY
    THEN [category |-> "Very Unhealthy", color |-> "#8f3f97"]
    ELSE [category |-> "Hazardous", color |-> "#7e0023"]

pm25_to_aqi_category(pm25) ==
    IF Le(pm25, AQI_GOOD) THEN [category |-> "Good", color |-> "#00e400"]
    ELSE IF Le(pm25, AQI_MODERATE) THEN [category |-> "Moderate", color |-> "#ffff00"]
    ELSE IF Le(pm25, AQI_USG)
    THEN [category |-> "Unhealthy for Sensitive Groups", color |-> "#ff7e00"]
    ELSE IF Le(pm25, AQI_UNHEALTHY) THEN [category |-> "Unhealthy", color |-> "#ff0000"]
    ELSE IF Le(pm25, AQI_VERY_UNHEALTHY)
    THEN [category |-> "Very Unhealthy", color |-> "#8f3f97"]
    ELSE [category |-> "Hazardous", color |-> "#7e0023"]

NoCategory == [category |-> "", color |-> ""]

\* one call of pm25_to_aqi_category
Classify ==
    /\ aqi_out = NoCategory
    /\ aqi_out' = pm25_to_aqi_category(aqi_in)
    /\ UNCHANGED <<aqi_in, inputs, run, post>>

\* ------------------------------------------------------- forecast summary
NoSummary == [state |-> "none", worst_idx |-> 0 - 1, today |-> 0, label |-> "",
              period |-> "", category |-> ""]

\* df["PM2.5_pred"].idxmax(): the first position (0-based) holding the largest
\* value, NaN skipped
idxmax(df) ==
    LET v == [i \in 1..Len(df) |-> df[i]["PM2.5_pred"]]
        best == CHOOSE i \in 1..Len(df) :
                    /\ v[i] # NaN
                    /\ \A j \in 1..Len(df) : v[j] # NaN => v[j] <= v[i]
                    /\ \A j \in 1..(i - 1) : v[j] # v[i]
    IN  best - 1

\* the time-of-day text of the summary
SummaryPeriod(hour) ==
    IF 6 <= hour /\ hour < 12 THEN "morning (6-12 AM)"
    ELSE IF 12 <= hour /\ hour < 18 THEN "afternoon (12-6 PM)"
    ELSE IF hour >= 18 THEN "evening (6-12 PM)" ELSE "night (12-6 AM)"

\* date_str: today is datetime.datetime.now().date() as a day number
SummaryDate(worst_time, today) ==
    IF worst_time \div 24 = today THEN "Today"
    ELSE IF worst_time \div 24 = today + 1 THEN "Tomorrow"
    ELSE "%A, %B %d"

\* generate_forecast_summary(df_future), called by the main script on a
\* non-empty forecast.  A row without a "datetime" value holds NaT there:
\* NaT.date() is NaT, which equals no date, and NaT.strftime raises ValueError.
GenerateForecastSummary ==
    /\ pc = "returned" /\ summary.state = "none" /\ Len(df_future) > 0
    /\ \E today \in ((wx_t0 \div 24) - 1)..((wx_t0 \div 24) + 1) :
        LET df == [i \in 1..Len(df_future) |->
                     LET a == pm25_to_aqi_category(df_future[i]["PM2.5_pred"])
                     IN  SetCol(SetCol(df_future[i], "aqi_category", a.category),
                                "aqi_color", a.color)]
            overall_worst_idx == idxmax(df)
            overall_worst_category == df[overall_worst_idx + 1]["aqi_category"]
            worst_time == df[overall_worst_idx + 1]["datetime"]
        IN  /\ df_future' = df
            /\ IF worst_time = NaN
               THEN summary' = [state |-> "raised", worst_idx |-> overall_worst_idx,
                                today |-> today, label |-> "", period |-> "",
                                category |-> overall_worst_category]
               ELSE summary' = [state |-> "done", worst_idx |-> overall_worst_idx,
                                today |-> today,
                                label |-> SummaryDate(worst_time, today),
                                period |-> SummaryPeriod(worst_time % 24),
                                category |-> overall_worst_category]
    /\ UNCHANGED <<pc, idx, history_pm25, rows, X, n_predict, st_error, exc, inputs, aqi>>

\* ----------------------------------------------------------- initial states
WxLens == {0, FORECAST_HOURS - 1} \cup (FORECAST_HOURS..(FORECAST_HOURS + MaxExtra))
AqLens == {0, 1, 2, HISTORY_HOURS - 1, HISTORY_HOURS, HISTORY_HOURS + AqExtra}
HwLens == {0 - 1, 2, PRECIP_WINDOW + HwExtra}
StartTimes == {30, 100}
ModelKinds == {"walk", "persist"}

\* a well-formed request: full weather series, every field, a working model
NominalWeather ==
    /\ wx_len = FORECAST_HOURS
    /\ wx_missing = "none"
    /\ hw_n = PRECIP_WINDOW + HwExtra
    /\ model_strict = FALSE
NominalHistory ==
    /\ aq_order = "asc"
    /\ aq_gap = FALSE
NominalModel ==
    /\ fail_at = 0 - 1
    /\ fail_kind = "raise"

\* runs in which the model misbehaves at one step
FailureRuns ==
    /\ NominalWeather /\ NominalHistory
    /\ wx_t0 = 30
    /\ aq_n \in {0, HISTORY_HOURS + AqExtra}
    /\ model_kind \in ModelKinds
    /\ \/ fail_kind = "raise" /\ fail_at \in 0..(FORECAST_HOURS - 1)
       \/ fail_kind \in {"nan", "inf"} /\ fail_at \in 0..MaxNonFiniteStep

\* runs over the shapes of the air-quality history
HistoryRuns ==
    /\ NominalWeather /\ NominalModel
    /\ wx_t0 \in StartTimes
    /\ aq_n \in AqLens
    /\ aq_order \in {"asc", "desc"}
    /\ aq_gap \in BOOLEAN
    /\ model_kind \in ModelKinds

\* runs over the shapes of the weather inputs
WeatherRuns ==
    /\ NominalHistory /\ NominalModel
    /\ wx_t0 = 100
    /\ wx_len \in WxLens
    /\ wx_missing \in {"none"} \cup WeatherFields
    /\ hw_n \in HwLens
    /\ model_strict \in BOOLEAN
    /\ aq_n = HISTORY_HOURS
    /\ model_kind = "walk"

Init ==
    /\ FailureRuns \/ HistoryRuns \/ WeatherRuns
    /\ InitRun
    /\ aqi_in = 0
    /\ aqi_out = NoCategory
    /\ summary = NoSummary

Next == Step0 \/ StepN \/ Return \/ GenerateForecastSummary

Spec == Init /\ [][Next]_vars

\* the classifier alone, over every concentration up to MaxPM25, NaN and inf
InitAQI ==
    /\ NominalWeather /\ NominalHistory /\ NominalModel
    /\ wx_t0 = 30 /\ aq_n = HISTORY_HOURS /\ model_kind = "walk"
    /\ InitRun
    /\ aqi_in \in (0..MaxPM25) \cup {NaN, PosInf}
    /\ aqi_out = NoCategory
    /\ summary = NoSummary

NextAQI == Classify

SpecAQI == InitAQI /\ [][NextAQI]_vars

\* ------------------------------------------------------------------ claims
\* The buffer the frame X was derived from: the model's answer to X has been
\* appended since, unless the run stopped on that call.
ReadBuffer ==
    IF pc = "stopped" THEN history_pm25
    ELSE SubSeq(history_pm25, 1, Len(history_pm25) - 1)

\* C1: for a weather series of at least 72 rows with every field and a model
\* that returns a finite number at every call, the run neither stops nor
\* raises, each accumulated step carries the timestamp of the weather row of
\* its position, and the returned frame has exactly 72 rows whose timestamps
\* are strictly increasing and equal to the first 72 timestamps of wx_df.
C1_SeventyTwoStepsInOrder ==
    (wx_len >= 72 /\ wx_missing = "none" /\ fail_at = 0 - 1) =>
        /\ pc \in {"loop", "returned"}
        /\ Len(rows) > 0 => rows[Len(rows)]["time"] = WxRow(Len(rows) - 1)["time"]
        /\ pc = "returned" =>
            /\ Len(df_future) = 72
            /\ \A i \in 1..72 : df_future[i]["time"] = WxRow(i - 1)["time"]
            /\ \A i \in 1..71 : df_future[i]["time"] < df_future[i + 1]["time"]

C1_Witness ==
    /\ pc = "returned" /\ wx_len > 72 /\ wx_missing = "none" /\ fail_at = 0 - 1
    /\ Len(df_future) = 72
    /\ df_future[72]["time"] = wx_t0 + 71

\* C2: once the model has raised at step k the run has stopped there: the k+1
\* calls up to the failing one are the only calls made, the k accumulated
\* steps are not returned (no dataframe is returned at all), and a returned
\* dataframe implies that no prediction error was shown.
C2_RaiseAbortsRun ==
    /\ (fail_kind = "raise" /\ fail_at >= 0 /\ n_predict > fail_at) =>
            /\ pc = "stopped"
            /\ n_predict = fail_at + 1
            /\ Len(rows) = fail_at
            /\ Len(df_future) = 0
    /\ pc = "stopped" => Len(df_future) = 0 /\ n_predict = Len(rows) + 1
    /\ pc = "returned" => st_error = NoError

C2_Witness ==
    /\ pc = "stopped" /\ fail_kind = "raise" /\ fail_at = 37
    /\ Len(rows) = 37 /\ n_predict = 38 /\ Len(df_future) = 0

\* C3 (as claimed): whenever the run stopped on a model failure at step k, the
\* message shown to the user names k.
C3_ErrorNamesStep ==
    pc = "stopped" => \E j \in 1..Len(st_error.args) : st_error.args[j] = idx

\* C4 (as claimed): no prediction emitted as a forecast step, and no value
\* appended to the history buffer during the run, is NaN or infinite.
C4_NonFiniteNeverKept ==
    \A i \in 1..Len(rows) :
        /\ IsFinite(rows[i]["PM2.5_pred"])
        /\ IsFinite(history_pm25[Len(history_pm25) - Len(rows) + i])

\* C5 (as claimed): when wx_df lacks one of the eight weather fields no model
\* call is made, and every frame passed to the model has all eight fields.
C5_MissingFieldFailsEarly ==
    /\ wx_missing # "none" => n_predict = 0
    /\ n_predict > 0 => WeatherFields \subseteq DOMAIN X

\* C6 (as claimed): every step's row has the same set of columns as the row
\* of step 0.
C6_SameColumnsEveryStep ==
    \A i \in 1..Len(rows) : DOMAIN rows[i] = DOMAIN rows[1]

LagSpec == {<<1, "pm2.5_lag1">>, <<2, "pm2.5_lag2">>, <<3, "pm2.5_lag3">>,
            <<6, "pm2.5_lag6">>, <<12, "pm2.5_lag12">>, <<24, "pm2.5_lag24">>}

\* C7 (as claimed): for a buffer of numbers, each lag-k feature of a frame is
\* the entry k positions before the end of the buffer when it has k entries,
\* otherwise the oldest entry, and is never NaN whatever the buffer length.
C7_LagNeverNaN ==
    (n_predict > 0 /\ \A i \in 1..Len(ReadBuffer) : ReadBuffer[i] # NaN) =>
        \A p \in LagSpec :
            LET buf == ReadBuffer
                v == X[p[2]]
            IN  /\ v # NaN
                /\ IF Len(buf) >= p[1] THEN v = buf[Len(buf) - p[1] + 1]
                   ELSE Len(buf) > 0 /\ v = buf[1]

\* C7 (amended): each lag-k feature of a frame is the entry k positions before
\* the end of the buffer when it has k entries, the oldest entry when it has
\* fewer but at least one, and NaN when the buffer is empty.
C7_LagOrOldestOrNaN ==
    n_predict > 0 =>
        \A p \in LagSpec :
            LET buf == ReadBuffer
                v == X[p[2]]
            IN  IF Len(buf) >= p[1] THEN v = buf[Len(buf) - p[1] + 1]
                ELSE IF Len(buf) > 0 THEN v = buf[1]
                ELSE v = NaN

C7_Witness ==
    /\ aq_n = 2 /\ n_predict = 2 /\ pc = "loop"
    /\ Len(ReadBuffer) = 3
    /\ X["pm2.5_lag6"] = ReadBuffer[1]
    /\ X["pm2.5_lag2"] = ReadBuffer[2]
    /\ X["pm2.5_lag6"] # X["pm2.5_lag1"]

\* sum over i < j of (w[i] - w[j])^2, which is n * sum(x^2) - sum(x)^2
PairwiseSq(w) ==
    SumSeq([i \in 1..Len(w) |->
        SumSeq([j \in 1..Len(w) |->
            IF i < j THEN (w[i] - w[j]) * (w[i] - w[j]) ELSE 0])])

\* C8: the rolling features of a frame are taken over the last min(24, len)
\* entries of the buffer: over finite entries the mean is their sum divided by
\* their number and the (squared) std is the population variance; a window of
\* one entry has std 0; an empty buffer has mean NaN and std NaN.
C8_RollingWindow ==
    n_predict > 0 =>
        LET buf == ReadBuffer
            n == Len(buf)
            w == IF n < 24 THEN n ELSE 24
            win == [i \in 1..w |-> buf[n - w + i]]
            finite == \A i \in 1..w : IsFinite(win[i])
            m == X["pm2.5_roll24_mean"]
            sd == X["pm2.5_roll24_std"]
        IN  /\ n = 0 => m.num = NaN /\ sd.num = NaN
            /\ w = 1 => sd.num = 0 /\ sd.den = 1
            /\ (w >= 1 /\ finite) => m.den = w /\ m.num = SumSeq(win)
            /\ (w >= 2 /\ finite) => sd.den = w * w /\ sd.num = PairwiseSq(win)

C8_Witness ==
    /\ aq_n = 0 /\ Len(rows) = 30
    /\ rows[1]["pm2.5_roll24_mean"].num = NaN
    /\ rows[2]["pm2.5_roll24_std"] = [num |-> 0, den |-> 1]
    /\ rows[2]["pm2.5_roll24_mean"].den = 1
    /\ rows[30]["pm2.5_roll24_mean"].den = 24
    /\ rows[30]["pm2.5_roll24_std"].num > 0

\* C9: Extreme_PM2.5 is "Yes" exactly when the buffer has an entry and the
\* most recent one is >= 150, Extreme_Event_VMD_shift1 is "Yes" exactly when
\* the buffer has two entries and the second most recent is >= 150; each flag
\* is "No" otherwise.
C9_ExtremeFlags ==
    n_predict > 0 =>
        LET buf == ReadBuffer
            n == Len(buf)
        IN  /\ X["Extreme_PM2.5"] \in {"Yes", "No"}
            /\ X["Extreme_Event_VMD_shift1"] \in {"Yes", "No"}
            /\ X["Extreme_PM2.5"] = "Yes" <=>
                    (n >= 1 /\ buf[n] # NaN /\ buf[n] >= 1500)
            /\ X["Extreme_Event_VMD_shift1"] = "Yes" <=>
                    (n >= 2 /\ buf[n - 1] # NaN /\ buf[n - 1] >= 1500)

C9_Witness ==
    /\ n_predict > 0 /\ Len(ReadBuffer) >= 2
    /\ ReadBuffer[Len(ReadBuffer)] = 1500
    /\ ReadBuffer[Len(ReadBuffer) - 1] = 1499
    /\ X["Extreme_PM2.5"] = "Yes"
    /\ X["Extreme_Event_VMD_shift1"] = "No"

\* C10: the category of a concentration v (tenths of ug/m3) is Good for
\* v <= 12.0, Moderate for 12.0 < v <= 35.4, Unhealthy for Sensitive Groups
\* for 35.4 < v <= 55.4, Unhealthy for 55.4 < v <= 150.4, Very Unhealthy for
\* 150.4 < v <= 250.4 and Hazardous above, so each value has one category.
C10_AqiBreakpoints ==
    (aqi_out # NoCategory /\ aqi_in # NaN) =>
        LET v == aqi_in
            c == aqi_out.category
        IN  /\ v <= 120 => c = "Good"
            /\ (120 < v /\ v <= 354) => c = "Moderate"
            /\ (354 < v /\ v <= 554) => c = "Unhealthy for Sensitive Groups"
            /\ (554 < v /\ v <= 1504) => c = "Unhealthy"
            /\ (1504 < v /\ v <= 2504) => c = "Very Unhealthy"
            /\ 2504 < v => c = "Hazardous"

C10_Witness ==
    /\ aqi_in = 1504 /\ aqi_out.category = "Unhealthy"

\* the last min(24, n) observations of aq_df in time order, oldest first
Seed ==
    LET m == IF aq_n < 24 THEN aq_n ELSE 24
    IN  [i \in 1..m |-> AqValue(aq_n - m + i)]

\* C11: at every point of a run the history buffer is the seed (the last
\* min(24, n) observations in time order) followed by the predictions of the
\* completed steps in order, one entry per completed step: nothing is ever
\* removed or reordered, and while the loop runs the number of completed
\* steps is the loop index.
C11_BufferIsSeedThenPredictions ==
    /\ Len(history_pm25) = Len(Seed) + Len(rows)
    /\ \A i \in 1..Len(Seed) : history_pm25[i] = Seed[i]
    /\ \A i \in 1..Len(rows) : history_pm25[Len(Seed) + i] = rows[i]["PM2.5_pred"]
    /\ pc = "loop" => Len(rows) = idx

C11_Witness ==
    /\ aq_n = 24 + AqExtra /\ aq_order = "desc" /\ pc = "returned"
    /\ Len(rows) = 72 /\ Len(history_pm25) = 96
    /\ history_pm25[24] = AqValue(aq_n)
    /\ history_pm25[96] = rows[72]["PM2.5_pred"]

\* C12: HoursOfRain and HoursOfSnow (and their _rolling twins) of the frame of
\* step 0 are, when a historical window is supplied, the number of its last
\* 24 rows with precipitation / snowfall >= 0.1; the frame of every step
\* 1..71, and of step 0 without a window, has 3 where the current weather
\* row's value is > 0.1 and 0 otherwise, independently for rain and snow.
C12_PrecipitationHours ==
    n_predict > 0 =>
        LET step == n_predict - 1
            lo == IF hw_n > 24 THEN hw_n - 23 ELSE 1
            rain == IF step = 0 /\ hw_n >= 0
                    THEN Cardinality({j \in lo..hw_n :
                             historical_weather_df[j].precipitation >= 1})
                    ELSE IF WxValue("precipitation", step) > 1 THEN 3 ELSE 0
            snow == IF step = 0 /\ hw_n >= 0
                    THEN Cardinality({j \in lo..hw_n :
                             historical_weather_df[j].snowfall >= 1})
                    ELSE IF WxValue("snowfall", step) > 1 THEN 3 ELSE 0
        IN  /\ X["HoursOfRain"] = rain /\ X["HoursOfRain_rolling"] = rain
            /\ X["HoursOfSnow"] = snow /\ X["HoursOfSnow_rolling"] = snow

C12_Witness ==
    /\ n_predict = 2 /\ pc = "loop" /\ hw_n > 24 /\ wx_missing = "none"
    /\ rows[1]["HoursOfRain"] > 3
    /\ rows[1]["HoursOfSnow"] > 3
    /\ X["precipitation"] = 1 /\ X["HoursOfRain"] = 0
    /\ X["snowfall"] = 0 /\ X["HoursOfSnow"] = 0

\* C14: in the row of every step n >= 1 the lag-1 feature is the prediction
\* of step n-1, and the lag-k feature is the prediction of step n-k whenever
\* n >= k; in the row of step 0 the lag-1 feature is the most recent real
\* observation when there is one.
C14_LagIsEarlierPrediction ==
    /\ \A n \in 1..(Len(rows) - 1) :
            \A p \in LagSpec :
                n >= p[1] => rows[n + 1][p[2]] = rows[n + 1 - p[1]]["PM2.5_pred"]
    /\ (Len(rows) > 0 /\ aq_n > 0) => rows[1]["pm2.5_lag1"] = AqValue(aq_n)
    /\ (pc = "stopped" /\ idx >= 1) => X["pm2.5_lag1"] = rows[idx]["PM2.5_pred"]

C14_Witness ==
    /\ Len(rows) = 25 /\ model_kind = "walk" /\ aq_n > 0
    /\ rows[2]["pm2.5_lag1"] = rows[1]["PM2.5_pred"]
    /\ rows[2]["pm2.5_lag1"] # rows[2]["pm2.5_lag2"]
    /\ rows[25]["pm2.5_lag24"] = rows[1]["PM2.5_pred"]
    /\ rows[25]["pm2.5_lag1"] = rows[24]["PM2.5_pred"]

\* C13 (as claimed): whenever the summary of a completed forecast has been
\* asked for, it was produced, the step it selects is the earliest one whose
\* prediction equals the largest prediction, and its day label and time-of-day
\* period are those of that step's own timestamp.
C13_SummaryOfWorstStep ==
    summary.state # "none" =>
        LET w == summary.worst_idx + 1
            t == rows[w]["time"]
            hour == t % 24
        IN  /\ \A j \in 1..72 : rows[j]["PM2.5_pred"] # NaN =>
                    rows[j]["PM2.5_pred"] <= rows[w]["PM2.5_pred"]
            /\ \A j \in 1..(w - 1) : rows[j]["PM2.5_pred"] # rows[w]["PM2.5_pred"]
            /\ summary.state = "done"
            /\ summary.label = "Today" <=> t \div 24 = summary.today
            /\ summary.label = "Tomorrow" <=> t \div 24 = summary.today + 1
            /\ summary.period = (CASE hour < 6 -> "night (12-6 AM)"
                                   [] hour >= 6 /\ hour < 12 -> "morning (6-12 AM)"
                                   [] hour >= 12 /\ hour < 18 -> "afternoon (12-6 PM)"
                                   [] hour >= 18 -> "evening (6-12 PM)")

====
